---- MODULE Spec2Model ----
(***************************************************************************)
(* State-machine model of scripts/layers.js: the layer registry            *)
(* (window.UserLayerManager), the repo-layer preloader, the layers panel   *)
(* handlers (toggle, opacity slider, remove) and the upload flow.          *)
(*                                                                         *)
(* JavaScript runs the handlers on one thread; code between two awaits is  *)
(* one atomic action here.  Opacities are percentages (0.7 is 70).         *)
(***************************************************************************)
EXTENDS Naturals, Sequences, FiniteSets, TLC

\* ------------------------------------------------------------------ bounds
NumCfg == 2          \* length of window.GEOJSON_LAYERS_CONFIG
MaxUploads == 2      \* files uploaded over the whole run (uid() calls)
MaxFeatures == 2     \* length of the feature lists computeLabelField is applied to
MaxRows == 2         \* rows of the CSV documents handleCsvUpload is applied to
MaxGroupCfgs == 3    \* length of the lists groupRepoLayers is applied to

\* --------------------------------------------------------------- constants
DefaultOpacity == 70
RoadsOpacity == 60
RoadsBaseOpacity == 60
SliderInitial == 70
SliderMax == 100

NULL == "<null>"            \* JavaScript null / undefined
RoadsId == "major_roads"

\* ----------------------------------------------------- configuration data
\* window.GEOJSON_LAYERS_CONFIG and window.REPO_LAYER_GROUPS are declared
\* outside scripts/layers.js; they are modelled from the data model of the
\* specification: unique ids, one config of type roads, whose id is the
\* reserved roads id.
ConfigPool ==
  { [id |-> "major_roads",    name |-> "Major Roads",    type |-> "roads",        labelField |-> NULL],
    [id |-> "municipalities", name |-> "Municipalities", type |-> "municipality", labelField |-> NULL],
    [id |-> "landuse",        name |-> "Land use",       type |-> NULL,           labelField |-> "LBL"] }

ConfigLists ==
  { c \in [1..NumCfg -> ConfigPool] : \A i, j \in 1..NumCfg : c[i].id = c[j].id => i = j }

GroupOrder ==
  << [id |-> "municipality", title |-> "Municipalities"],
     [id |-> "roads",        title |-> "Roads"],
     [id |-> "other",        title |-> "Other layers"] >>

\* Number of features in the document served at the config's url.
DocFeatureCount(cfg) == IF cfg.type = "municipality" THEN 2 ELSE 1

Procs == {1, 2}             \* invocations of preloadRepoLayers

\* Slider positions the user picks: the one rows start at, and the maximum.
SliderValues == {SliderInitial, SliderMax}

VARIABLES
  config,      \* window.GEOJSON_LAYERS_CONFIG
  env,         \* which optional globals are loaded (Papa, shp, LayerStyle.guessLabelProperty),
               \* whether built handles carry __ema, and the files the user can select
  net,         \* what the network does with each config's fetch: "ok", "fail", "stall"
  uploaded,    \* UserLayerManager.uploaded, in key (insertion) order
  repo,        \* UserLayerManager.repo, in key (insertion) order
  onMap,       \* handles the map holds (map.hasLayer)
  applied,     \* handle on the map -> opacity last passed to its __ema.setOpacity
  rows,        \* configs that got a row in the repo panel, in panel order
  sliderRepo,  \* config id -> value of its row's slider
  sliderUp,    \* uploaded id -> value of its row's slider
  removed,     \* uploaded entries that were removed (their rows' closures remain):
               \* id, handle, features, and the active flag at removal
  pre,         \* per invocation of preloadRepoLayers: where it is suspended
  readyCount,  \* "layers:repoPreloaded" events dispatched
  upBatch,     \* files of the upload click being processed
  upIdx,       \* index of the file whose handler is awaited; 0 when no click is running
  upLog,       \* outcome of each file of the current or last click
  nextUid,     \* uid() calls so far
  lf,          \* harness for computeLabelField: inputs and result
  csv,         \* harness for the row loop of handleCsvUpload: inputs and result
  grp          \* harness for groupRepoLayers: input and result

regVars == <<uploaded, repo, onMap, applied>>
rowVars == <<rows, sliderRepo, sliderUp, removed>>
preVars == <<pre, readyCount>>
upVars  == <<upBatch, upIdx, upLog, nextUid>>
envVars == <<config, env, net>>
probeVars == <<lf, csv, grp>>
vars    == <<config, env, net, uploaded, repo, onMap, applied, rows, sliderRepo,
             sliderUp, removed, pre, readyCount, upBatch, upIdx, upLog, nextUid, lf, csv, grp>>

\* ---------------------------------------------------------------- helpers
Min(S) == CHOOSE x \in S : \A y \in S : x <= y

Range(s) == { s[k] : k \in DOMAIN s }

RECURSIVE Concat(_)
Concat(ss) == IF ss = <<>> THEN <<>> ELSE Head(ss) \o Concat(Tail(ss))

\* A JavaScript object used as a map, as the sequence of its values in key
\* order.  Keys here are never integer-like strings, so key order is
\* insertion order.
Has(part, id) == \E k \in DOMAIN part : part[k].id = id

Get(part, id) == part[CHOOSE k \in DOMAIN part : part[k].id = id]

Keys(part) == { part[k].id : k \in DOMAIN part }

\* Mutant: a list push instead of a keyed assignment.
Put_Push(part, e) == Append(part, e)

\* part[e.id] = e : an existing key keeps its place, a new key goes last.
Put(part, e) ==
  IF Has(part, e.id)
  THEN [k \in DOMAIN part |-> IF part[k].id = e.id THEN e ELSE part[k]]
  ELSE Append(part, e)

\* Mutant: the key is not deleted.
Delete_Keep(part, id) == part

\* delete part[id]
Delete(part, id) == SelectSeq(part, LAMBDA e : e.id # id)

\* Mutant: the assignment also clears the entry's label field, to have it
\* resolved again later.
SetField_ClearLabel(part, id, f, v) ==
  [k \in DOMAIN part |->
     IF part[k].id = id
     THEN [part[k] EXCEPT ![f] = v, !.meta.labelField = NULL]
     ELSE part[k]]

\* obj.<field> = value, on the entry stored under id
SetField(part, id, f, v) ==
  [k \in DOMAIN part |-> IF part[k].id = id THEN [part[k] EXCEPT ![f] = v] ELSE part[k]]

\* Array features: [isArray |-> TRUE, items |-> the features].  A value of
\* data.features that is truthy and no array (a string, say) has isArray FALSE.
ArrayOf(h, n) == [isArray |-> TRUE, items |-> [k \in 1..n |-> <<h, k>>]]

LengthTruthy(features) == Len(features.items) > 0

Truthy(s) == s # NULL /\ s # ""


\* ---------------------------------------------------------------- registry
\* Mutant: the active flag is not tested.
ActiveFeaturesOf_AnyFlag(part) ==
  Concat([k \in DOMAIN part |->
            IF part[k].features.isArray THEN part[k].features.items ELSE <<>>])

\* The features one partition contributes to getAllActiveFeatures.
ActiveFeaturesOf(part) ==
  Concat([k \in DOMAIN part |->
            IF part[k].active /\ part[k].features.isArray
            THEN part[k].features.items ELSE <<>>])

getAllActiveFeatures == ActiveFeaturesOf(uploaded) \o ActiveFeaturesOf(repo)

\* ------------------------------------------------------------ label field
\* Mutant: the type default is tried before the config's labelField.
computeLabelField_TypeFirst(cfg, features, guess) ==
  IF ~LengthTruthy(features) THEN NULL
  ELSE IF cfg.type = "municipality" THEN "NAME_1"
  ELSE IF cfg.type = "zone" THEN "zone"
  ELSE IF Truthy(cfg.labelField) THEN cfg.labelField
  ELSE IF guess # "absent" THEN guess
  ELSE NULL

\* guess: "absent" when LayerStyle.guessLabelProperty is not defined, else
\* what the service answers (NULL or a property name).
computeLabelField(cfg, features, guess) ==
  IF ~LengthTruthy(features) THEN NULL
  ELSE IF Truthy(cfg.labelField) THEN cfg.labelField
  ELSE IF cfg.type = "municipality" THEN "NAME_1"
  ELSE IF cfg.type = "zone" THEN "zone"
  ELSE IF guess # "absent" THEN guess
  ELSE NULL

\* ------------------------------------------------------------- map surface
\* Handles built by LayerStyle.createLayerFromGeoJson carry __ema.setOpacity
\* when env.ema; the CSV feature group always does.
HasSetOpacity(h) == IF h[1] = "upload_csv" THEN TRUE ELSE env.ema

SetOpacityOn(app, h, v) == IF HasSetOpacity(h) THEN (h :> v) @@ app ELSE app

\* map.removeLayer(h): a detached handle's style is no longer observed.
Detached(app, h) == [k \in (DOMAIN app) \ {h} |-> app[k]]

\* ---------------------------------------------------------- repo preloader
\* Mutant: one default opacity for every type.
RepoEntry_FlatOpacity(cfg, p) ==
  LET h     == <<cfg.id, p>>
      feats == ArrayOf(h, DocFeatureCount(cfg))
  IN  [ id       |-> cfg.id,
        name     |-> cfg.name,
        layer    |-> h,
        features |-> feats,
        active   |-> FALSE,
        opacity  |-> DefaultOpacity,
        meta     |-> [ type |-> cfg.type,
                       labelField |-> computeLabelField(cfg, feats, env.guess) ] ]

RepoEntry(cfg, p) ==
  LET h     == <<cfg.id, p>>
      feats == ArrayOf(h, DocFeatureCount(cfg))
  IN  [ id       |-> cfg.id,
        name     |-> cfg.name,
        layer    |-> h,
        features |-> feats,
        active   |-> FALSE,
        opacity  |-> IF cfg.type = "roads" THEN RoadsOpacity ELSE DefaultOpacity,
        meta     |-> [ type |-> cfg.type,
                       labelField |-> computeLabelField(cfg, feats, env.guess) ] ]

\* Mutant: the loop steps over one config too many.
NextIndex_SkipOne(i, repoNow) ==
  LET cand == { j \in (i + 1)..Len(config) : ~Has(repoNow, config[j].id) }
  IN  IF cand = {} THEN Len(config) + 1 ELSE Min(cand)

\* The loop's "continue" on configs already in the registry: the first index
\* from i on whose id has no repo entry, Len(config) + 1 when there is none.
NextIndex(i, repoNow) ==
  LET cand == { j \in i..Len(config) : ~Has(repoNow, config[j].id) }
  IN  IF cand = {} THEN Len(config) + 1 ELSE Min(cand)

\* Mutant: past the last config the roads forcing comes first; the event is
\* not dispatched before it.
Continue_ForceFirst(p, i, repoNow) ==
  LET j == NextIndex(i, repoNow)
  IN  /\ readyCount' = readyCount
      /\ IF j <= Len(config)
         THEN pre' = [pre EXCEPT ![p] = [pc |-> "fetch", i |-> j]]
         ELSE pre' = [pre EXCEPT ![p] = [pc |-> "force", i |-> j]]

\* Mutant: the event is dispatched inside the loop, after each config.
Continue_DispatchInLoop(p, i, repoNow) ==
  LET j == NextIndex(i, repoNow)
  IN  /\ readyCount' = readyCount + 1
      /\ IF j <= Len(config)
         THEN pre' = [pre EXCEPT ![p] = [pc |-> "fetch", i |-> j]]
         ELSE pre' = [pre EXCEPT ![p] = [pc |-> "force", i |-> j]]

\* The loop from index i up to its next await; past the last config the
\* "layers:repoPreloaded" event is dispatched.
Continue(p, i, repoNow) ==
  LET j == NextIndex(i, repoNow)
  IN  IF j <= Len(config)
      THEN /\ pre' = [pre EXCEPT ![p] = [pc |-> "fetch", i |-> j]]
           /\ readyCount' = readyCount
      ELSE /\ pre' = [pre EXCEPT ![p] = [pc |-> "force", i |-> j]]
           /\ readyCount' = readyCount + 1

\* The event's listeners run inside dispatchEvent: nothing of this script
\* runs between the dispatch and the roads forcing.
Dispatching == \E p \in Procs : pre[p].pc = "force"

PreloadStart(p) ==
  /\ ~Dispatching
  /\ pre[p].pc = "idle"
  /\ Continue(p, 1, repo)
  /\ UNCHANGED <<regVars, rowVars, upVars, envVars, probeVars>>

\* await fetch(cfg.url) settles
FetchResolve(p) ==
  /\ ~Dispatching
  /\ pre[p].pc = "fetch"
  /\ net[pre[p].i] # "stall"
  /\ \/ /\ pre' = [pre EXCEPT ![p].pc = "json"]
        /\ readyCount' = readyCount
     \/ /\ net[pre[p].i] = "fail"
        /\ Continue(p, pre[p].i + 1, repo)
  /\ UNCHANGED <<regVars, rowVars, upVars, envVars, probeVars>>

\* Mutant: the try/catch wraps the whole loop, so a failure ends the loop.
JsonResolve_CatchOutsideLoop(p) ==
  /\ ~Dispatching
  /\ pre[p].pc = "json"
  /\ LET cfg == config[pre[p].i]
     IN  IF net[pre[p].i] = "ok"
         THEN /\ repo' = Put(repo, RepoEntry(cfg, p))
              /\ Continue(p, pre[p].i + 1, repo')
         ELSE /\ repo' = repo
              /\ pre' = [pre EXCEPT ![p] = [pc |-> "force", i |-> Len(config) + 1]]
              /\ readyCount' = readyCount + 1
  /\ UNCHANGED <<uploaded, onMap, applied, rowVars, upVars, envVars, probeVars>>

\* await resp.json() settles; then build, label and commit, or the catch
JsonResolve(p) ==
  /\ ~Dispatching
  /\ pre[p].pc = "json"
  /\ LET cfg == config[pre[p].i]
     IN  IF net[pre[p].i] = "ok"
         THEN /\ repo' = Put(repo, RepoEntry(cfg, p))
              /\ Continue(p, pre[p].i + 1, repo')
         ELSE /\ repo' = repo
              /\ Continue(p, pre[p].i + 1, repo)
  /\ UNCHANGED <<uploaded, onMap, applied, rowVars, upVars, envVars, probeVars>>

\* Mutant: the roads entry is left as the panel state has it.
PreloadForce_NotForced(p) ==
  /\ pre[p].pc = "force"
  /\ pre' = [pre EXCEPT ![p].pc = "done"]
  /\ UNCHANGED <<regVars, readyCount, rowVars, upVars, envVars, probeVars>>

\* Force Major Roads always ON
PreloadForce(p) ==
  /\ pre[p].pc = "force"
  /\ pre' = [pre EXCEPT ![p].pc = "done"]
  /\ IF Has(repo, RoadsId)
     THEN LET h == Get(repo, RoadsId).layer
          IN  /\ repo' = SetField(repo, RoadsId, "active", TRUE)
              /\ onMap' = onMap \cup {h}
              /\ applied' = SetOpacityOn(applied, h, RoadsBaseOpacity)
     ELSE UNCHANGED <<repo, onMap, applied>>
  /\ UNCHANGED <<uploaded, readyCount, rowVars, upVars, envVars, probeVars>>

\* ------------------------------------------------------------- repo panel
\* Mutant: a config is put at the front of its bucket (unshift for push).
RECURSIVE GroupInto_Unshift(_, _)
GroupInto_Unshift(groups, cfgs) ==
  IF cfgs = <<>> THEN groups
  ELSE LET cfg == Head(cfgs)
           t   == IF Truthy(cfg.type) THEN cfg.type ELSE "other"
           g   == IF t \in DOMAIN groups THEN groups ELSE (t :> <<>>) @@ groups
       IN  GroupInto_Unshift([g EXCEPT ![t] = <<cfg>> \o @], Tail(cfgs))

\* The loop of groupRepoLayers: each config is pushed onto the bucket of
\* its type, "other" when its type is missing or empty.
RECURSIVE GroupInto(_, _)
GroupInto(groups, cfgs) ==
  IF cfgs = <<>> THEN groups
  ELSE LET cfg == Head(cfgs)
           t   == IF Truthy(cfg.type) THEN cfg.type ELSE "other"
           g   == IF t \in DOMAIN groups THEN groups ELSE (t :> <<>>) @@ groups
       IN  GroupInto([g EXCEPT ![t] = Append(@, cfg)], Tail(cfgs))

groupRepoLayers(cfgs) == GroupInto(<<>>, cfgs)

\* Remove roads from what gets displayed in the panel
VisibleList(list) == SelectSeq(list, LAMBDA c : c.type # "roads")

\* The rows of the repo panel, group by group in GroupOrder.
PanelRows(cfgs) ==
  LET groups == groupRepoLayers(cfgs)
  IN  Concat([g \in DOMAIN GroupOrder |->
                IF GroupOrder[g].id \in DOMAIN groups
                THEN VisibleList(groups[GroupOrder[g].id]) ELSE <<>>])

\* Mutant: switching a repo row off drops its entry from the registry.
RepoToggle_OffDeletes(cfg, isOn) ==
  /\ ~Dispatching
  /\ IF ~Has(repo, cfg.id)
     THEN UNCHANGED <<repo, onMap, applied>>
     ELSE LET obj == Get(repo, cfg.id)
          IN  IF isOn
              THEN /\ repo' = SetField(repo, cfg.id, "active", isOn)
                   /\ onMap' = onMap \cup {obj.layer}
                   /\ applied' = SetOpacityOn(applied, obj.layer, sliderRepo[cfg.id])
              ELSE /\ repo' = Delete(repo, cfg.id)
                   /\ onMap' = onMap \ {obj.layer}
                   /\ applied' = Detached(applied, obj.layer)
  /\ UNCHANGED <<uploaded, rowVars, preVars, upVars, envVars, probeVars>>

\* Mutant: a toggle on a config that is not loaded commits its entry.
RepoToggle_CommitOnDemand(cfg, isOn) ==
  /\ ~Dispatching
  /\ IF ~Has(repo, cfg.id)
     THEN /\ repo' = Put(repo, RepoEntry(cfg, 1))
          /\ UNCHANGED <<onMap, applied>>
     ELSE LET obj == Get(repo, cfg.id)
          IN  /\ repo' = SetField(repo, cfg.id, "active", isOn)
              /\ IF isOn
                 THEN /\ onMap' = onMap \cup {obj.layer}
                      /\ applied' = SetOpacityOn(applied, obj.layer, sliderRepo[cfg.id])
                 ELSE /\ onMap' = onMap \ {obj.layer}
                      /\ applied' = Detached(applied, obj.layer)
  /\ UNCHANGED <<uploaded, rowVars, preVars, upVars, envVars, probeVars>>

\* row.toggle "change" on a repo row
RepoToggle(cfg, isOn) ==
  /\ ~Dispatching
  /\ IF ~Has(repo, cfg.id)
     THEN UNCHANGED <<repo, onMap, applied>>       \* alert: layer not ready yet
     ELSE LET obj == Get(repo, cfg.id)
          IN  /\ repo' = SetField(repo, cfg.id, "active", isOn)
              /\ IF isOn
                 THEN /\ onMap' = onMap \cup {obj.layer}
                      /\ applied' = SetOpacityOn(applied, obj.layer, sliderRepo[cfg.id])
                 ELSE /\ onMap' = onMap \ {obj.layer}
                      /\ applied' = Detached(applied, obj.layer)
  /\ UNCHANGED <<uploaded, rowVars, preVars, upVars, envVars, probeVars>>

\* row.slider "input" on a repo row: the slider already shows val
RepoSlider(cfg, val) ==
  /\ ~Dispatching
  /\ sliderRepo' = [sliderRepo EXCEPT ![cfg.id] = val]
  /\ IF ~Has(repo, cfg.id)
     THEN UNCHANGED <<repo, applied>>
     ELSE /\ repo' = SetField(repo, cfg.id, "opacity", val)
          /\ applied' = IF Get(repo, cfg.id).active
                        THEN SetOpacityOn(applied, Get(repo, cfg.id).layer, val)
                        ELSE applied
  /\ UNCHANGED <<uploaded, onMap, rows, sliderUp, removed, preVars, upVars, envVars, probeVars>>

\* ------------------------------------------------------------------ upload
\* Files the user may select: a name's stem and extension, and what the
\* file holds.
FilePool ==
  { [stem |-> "sites",   ext |-> "CSV",     body |-> "ok"],
    [stem |-> "odd",     ext |-> "json",    body |-> "nolist"],
    [stem |-> "broken",  ext |-> "geojson", body |-> "bad"],
    [stem |-> "parcels", ext |-> "zip",     body |-> "ok"],
    [stem |-> "notes",   ext |-> "txt",     body |-> "ok"] }

\* The files at hand in the runs that exercise the whole page.
FewFiles == { f \in FilePool : f.stem \in {"sites", "odd", "notes"} }

BatchesOf(files) == UNION { [1..n -> files] : n \in 0..MaxUploads }

\* String.prototype.toLowerCase on the extensions in use
ToLowerCase(s) == IF s = "CSV" THEN "csv" ELSE s

\* The extension dispatch of the click handler
Kind(file) ==
  LET lower == ToLowerCase(file.ext)
  IN  IF lower = "csv" THEN "csv"
      ELSE IF lower = "geojson" \/ lower = "json" THEN "geojson"
      ELSE IF lower = "zip" THEN "zip"
      ELSE "unsupported"

NoResult(status) == [status |-> status, layer |-> <<"none", 0>>, features |-> ArrayOf(<<"none", 0>>, 0)]

\* data.features || [] of a parsed document
DataFeatures(h, body) ==
  IF body = "nolist" THEN [isArray |-> FALSE, items |-> << <<h, 0>> >>]
  ELSE ArrayOf(h, 2)

handleCsvUpload(file, n) ==
  IF ~env.papa THEN NoResult("null")
  ELSE LET h == <<"upload_csv", n>>
       IN  [status |-> "result", layer |-> h, features |-> ArrayOf(h, 1)]

handleGeoJsonUpload(file, n) ==
  IF file.body = "bad" THEN NoResult("throw")       \* JSON.parse throws
  ELSE LET h == <<"upload_geojson", n>>
       IN  [status |-> "result", layer |-> h, features |-> DataFeatures(h, file.body)]

\* Mutant: without shpjs an empty layer is returned instead of null.
handleShapefileZipUpload_EmptyLayer(file, n) ==
  IF file.body = "bad" THEN NoResult("throw")
  ELSE LET h == <<"upload_shp", n>>
       IN  [status |-> "result", layer |-> h,
            features |-> IF env.shp THEN DataFeatures(h, file.body) ELSE ArrayOf(h, 0)]

handleShapefileZipUpload(file, n) ==
  IF ~env.shp THEN NoResult("null")
  ELSE IF file.body = "bad" THEN NoResult("throw")  \* shp rejects
  ELSE LET h == <<"upload_shp", n>>
       IN  [status |-> "result", layer |-> h, features |-> DataFeatures(h, file.body)]

\* What awaiting the file's handler gives; n numbers the handle it builds.
HandlerResult(file, n) ==
  IF Kind(file) = "csv" THEN handleCsvUpload(file, n)
  ELSE IF Kind(file) = "geojson" THEN handleGeoJsonUpload(file, n)
  ELSE handleShapefileZipUpload(file, n)

UploadEntry(file, id, result) ==
  [ id       |-> id,
    name     |-> <<file.stem, file.ext>>,
    layer    |-> result.layer,
    features |-> result.features,
    active   |-> FALSE,
    opacity  |-> DefaultOpacity,
    meta     |-> [ source |-> "upload",
                   labelField |-> computeLabelField([type |-> "uploaded", labelField |-> NULL],
                                                    result.features, env.guess) ] ]

Logged(outcome, id) == [outcome |-> outcome, id |-> id]

\* Mutant: an unsupported file ends the loop (return instead of continue).
UploadLoop_Return(files, i, log) ==
  IF i > Len(files) THEN [idx |-> 0, log |-> log]
  ELSE IF Kind(files[i]) = "unsupported"
       THEN [idx |-> 0, log |-> Append(log, Logged("unsupported", 0))]
       ELSE [idx |-> i, log |-> log]

\* The loop from file i up to its next await: unsupported files are
\* reported and skipped.  idx 0: the loop is over.
RECURSIVE UploadLoop(_, _, _)
UploadLoop(files, i, log) ==
  IF i > Len(files) THEN [idx |-> 0, log |-> log]
  ELSE IF Kind(files[i]) = "unsupported"
       THEN UploadLoop(files, i + 1, Append(log, Logged("unsupported", 0)))
       ELSE [idx |-> i, log |-> log]

\* uploadBtn "click" with these files selected
UploadClick(files) ==
  /\ ~Dispatching
  /\ upIdx = 0
  /\ nextUid + Len(files) <= MaxUploads
  /\ IF files = <<>>
     THEN UNCHANGED <<upBatch, upIdx, upLog>>        \* alert: select a file
     ELSE LET st == UploadLoop(files, 1, <<>>)
          IN  /\ upBatch' = files
              /\ upIdx' = st.idx
              /\ upLog' = st.log
  /\ UNCHANGED <<nextUid, regVars, rowVars, preVars, envVars, probeVars>>

\* The awaited handler settles: the entry and its row are created, or the
\* file is given up; then the loop goes on.
UploadResume ==
  /\ ~Dispatching
  /\ upIdx # 0
  /\ LET file == upBatch[upIdx]
         id   == nextUid + 1
         r    == HandlerResult(file, id)
     IN  IF r.status = "result"
         THEN LET st == UploadLoop(upBatch, upIdx + 1, Append(upLog, Logged("committed", id)))
              IN  /\ uploaded' = Put(uploaded, UploadEntry(file, id, r))
                  /\ sliderUp' = (id :> SliderInitial) @@ sliderUp
                  /\ nextUid' = id
                  /\ upIdx' = st.idx
                  /\ upLog' = st.log
         ELSE LET st == UploadLoop(upBatch, upIdx + 1,
                                   Append(upLog, Logged(IF r.status = "throw" THEN "failed"
                                                        ELSE "noresult", 0)))
              IN  /\ upIdx' = st.idx
                  /\ upLog' = st.log
                  /\ UNCHANGED <<uploaded, sliderUp, nextUid>>
  /\ UNCHANGED <<upBatch, repo, onMap, applied, rows, sliderRepo, removed, preVars, envVars, probeVars>>

\* Mutant: the entry is deleted and its handle is left on the map.
UpRemove_KeepOnMap(id) ==
  /\ ~Dispatching
  /\ IF ~Has(uploaded, id)
     THEN UNCHANGED <<uploaded, onMap, applied, sliderUp, removed>>
     ELSE LET obj == Get(uploaded, id)
          IN  /\ UNCHANGED <<onMap, applied>>
              /\ uploaded' = Delete(uploaded, id)
              /\ sliderUp' = [k \in (DOMAIN sliderUp) \ {id} |-> sliderUp[k]]
              /\ removed' = removed \cup {[id |-> id, layer |-> obj.layer, features |-> obj.features,
                                          active |-> obj.active]}
  /\ UNCHANGED <<repo, rows, sliderRepo, preVars, upVars, envVars, probeVars>>

\* onRemove of an uploaded row
UpRemove(id) ==
  /\ ~Dispatching
  /\ IF ~Has(uploaded, id)
     THEN UNCHANGED <<uploaded, onMap, applied, sliderUp, removed>>
     ELSE LET obj == Get(uploaded, id)
          IN  /\ onMap' = onMap \ {obj.layer}
              /\ applied' = Detached(applied, obj.layer)
              /\ uploaded' = Delete(uploaded, id)
              /\ sliderUp' = [k \in (DOMAIN sliderUp) \ {id} |-> sliderUp[k]]
              /\ removed' = removed \cup {[id |-> id, layer |-> obj.layer, features |-> obj.features,
                                          active |-> obj.active]}
  /\ UNCHANGED <<repo, rows, sliderRepo, preVars, upVars, envVars, probeVars>>

\* row.toggle "change" on an uploaded row
UpToggle(id, isOn) ==
  /\ ~Dispatching
  /\ IF ~Has(uploaded, id)
     THEN UNCHANGED <<uploaded, onMap, applied>>
     ELSE LET obj == Get(uploaded, id)
          IN  /\ uploaded' = SetField(uploaded, id, "active", isOn)
              /\ IF isOn
                 THEN /\ onMap' = onMap \cup {obj.layer}
                      /\ applied' = SetOpacityOn(applied, obj.layer, sliderUp[id])
                 ELSE /\ onMap' = onMap \ {obj.layer}
                      /\ applied' = Detached(applied, obj.layer)
  /\ UNCHANGED <<repo, rowVars, preVars, upVars, envVars, probeVars>>

\* row.slider "input" on an uploaded row
UpSlider(id, val) ==
  /\ ~Dispatching
  /\ IF ~Has(uploaded, id)
     THEN UNCHANGED <<uploaded, applied, sliderUp>>
     ELSE /\ sliderUp' = [sliderUp EXCEPT ![id] = val]
          /\ uploaded' = SetField(uploaded, id, "opacity", val)
          /\ applied' = IF Get(uploaded, id).active
                        THEN SetOpacityOn(applied, Get(uploaded, id).layer, val)
                        ELSE applied
  /\ UNCHANGED <<repo, onMap, rows, sliderRepo, removed, preVars, upVars, envVars, probeVars>>

\* ---------------------------------------------------------------- CSV rows
\* A number: fin says whether Number.isFinite holds of it.
NaN == [fin |-> FALSE, v |-> "NaN"]

NumberIsFinite(x) == x.fin

\* parseFloat on the cell texts in use: the longest numeric prefix counts,
\* and a text without one (or undefined, for a missing column) gives NaN.
parseFloat(text) ==
  IF text = "640000" THEN [fin |-> TRUE, v |-> 640000]
  ELSE IF text = "1200000" THEN [fin |-> TRUE, v |-> 1200000]
  ELSE IF text = "12abc" THEN [fin |-> TRUE, v |-> 12]
  ELSE IF text = "Infinity" THEN [fin |-> FALSE, v |-> "Infinity"]
  ELSE NaN

\* r.<column>: undefined when the header has no such column
Cell(r, c) == IF c \in DOMAIN r THEN r[c] ELSE NULL

\* How the reprojection service behaves: not loaded, throwing, answering
\* every pair, or answering NaN for pairs off the zone's grid.
ProjModes == {"absent", "throws", "loaded", "strict"}

\* proj4(utm20, wgs84, [easting, northing]) of a loaded service: [lon, lat]
Proj4(proj, easting, northing) ==
  IF proj = "strict" /\ easting.v < 100000
  THEN <<NaN, NaN>>
  ELSE << [fin |-> TRUE, v |-> <<"lon", easting.v, northing.v>>],
          [fin |-> TRUE, v |-> <<"lat", easting.v, northing.v>>] >>

NoLatLon == [isNull |-> TRUE, lat |-> NaN, lon |-> NaN]

utmToLatLon32620(easting, northing, proj) ==
  IF proj = "absent" THEN NoLatLon
  ELSE IF proj = "throws" THEN NoLatLon                 \* catch
  ELSE LET out == Proj4(proj, easting, northing)
           lon == out[1]
           lat == out[2]
       IN  IF ~NumberIsFinite(lat) \/ ~NumberIsFinite(lon) THEN NoLatLon
           ELSE [isNull |-> FALSE, lat |-> lat, lon |-> lon]

AssumedCRS == "EPSG:32620"

\* { ...r, __sourceFile: file.name, __assumedCRS: "EPSG:32620" }
CsvProperties(r, fileName) ==
  [c \in (DOMAIN r) \cup {"__sourceFile", "__assumedCRS"} |->
     IF c = "__sourceFile" THEN fileName
     ELSE IF c = "__assumedCRS" THEN AssumedCRS
     ELSE r[c]]

CsvFeature(r, ll, fileName) ==
  [ type       |-> "Feature",
    geometry   |-> [type |-> "Point", coordinates |-> <<ll.lon.v, ll.lat.v>>],
    properties |-> CsvProperties(r, fileName) ]

\* Mutant: the first unusable row ends the loop (break instead of continue).
RECURSIVE csvFeatures_Break(_, _, _)
csvFeatures_Break(rowList, fileName, proj) ==
  IF rowList = <<>> THEN <<>>
  ELSE LET r  == Head(rowList)
           e  == parseFloat(Cell(r, "Easting"))
           n  == parseFloat(Cell(r, "Northing"))
       IN  IF ~NumberIsFinite(e) \/ ~NumberIsFinite(n) THEN <<>>
           ELSE LET ll == utmToLatLon32620(e, n, proj)
                IN  IF ll.isNull THEN <<>>
                    ELSE <<CsvFeature(r, ll, fileName)>>
                         \o csvFeatures_Break(Tail(rowList), fileName, proj)

\* The row loop of handleCsvUpload: the features it accumulates.
RECURSIVE csvFeatures(_, _, _)
csvFeatures(rowList, fileName, proj) ==
  IF rowList = <<>> THEN <<>>
  ELSE LET r    == Head(rowList)
           e    == parseFloat(Cell(r, "Easting"))
           n    == parseFloat(Cell(r, "Northing"))
           rest == csvFeatures(Tail(rowList), fileName, proj)
       IN  IF ~NumberIsFinite(e) \/ ~NumberIsFinite(n) THEN rest
           ELSE LET ll == utmToLatLon32620(e, n, proj)
                IN  IF ll.isNull THEN rest
                    ELSE <<CsvFeature(r, ll, fileName)>> \o rest

\* Papa.parse(text, {header: true}).data: every row has the header's
\* columns.  One header lacks Northing, one has a column named like a tag.
HeaderPool ==
  { {"Easting", "Northing", "site"},
    {"Easting", "site"},
    {"Easting", "Northing", "__sourceFile"} }

ColumnTexts(c) ==
  IF c = "Easting" THEN {"640000", "12abc", "abc"}
  ELSE IF c = "Northing" THEN {"1200000", "Infinity"}
  ELSE IF c = "site" THEN {"a", "b"}
  ELSE {"old.csv"}

RowsOver(header) ==
  { r \in [header -> UNION { ColumnTexts(c) : c \in header }] :
      \A c \in header : r[c] \in ColumnTexts(c) }

CsvFileName == "sites.CSV"

CsvIdle == [rows |-> <<>>, proj |-> "absent", out |-> <<>>, done |-> FALSE]

CsvInputs ==
  UNION { [ rows : UNION { [1..k -> RowsOver(h)] : k \in 0..MaxRows },
            proj : ProjModes,
            out  : {<<>>},
            done : {FALSE} ] : h \in HeaderPool }

\* -------------------------------------------------------- grouping inputs
\* Configs as groupRepoLayers sees them: two share a type, one has type
\* "other", one has no type and one an empty type.
GroupCfgPool ==
  { [id |-> "m1", type |-> "municipality"],
    [id |-> "m2", type |-> "municipality"],
    [id |-> "r1", type |-> "roads"],
    [id |-> "o1", type |-> "other"],
    [id |-> "o2", type |-> NULL],
    [id |-> "o3", type |-> ""] }

GrpIdle == [cfgs |-> <<>>, out |-> <<>>, done |-> FALSE]

GrpInputs ==
  [ cfgs : UNION { [1..k -> GroupCfgPool] : k \in 0..MaxGroupCfgs },
    out  : {<<>>},
    done : {FALSE} ]

\* ----------------------------------------------------------- specification
EnvChoices ==
  { [papa |-> TRUE,  shp |-> TRUE,  guess |-> "name",   ema |-> TRUE],
    [papa |-> FALSE, shp |-> TRUE,  guess |-> NULL,     ema |-> TRUE],
    [papa |-> TRUE,  shp |-> FALSE, guess |-> "absent", ema |-> FALSE] }

LfIdle == [cfg |-> [type |-> NULL, labelField |-> NULL], n |-> 0, guess |-> "absent",
           out |-> NULL, done |-> FALSE]

\* Inputs of computeLabelField: a config (its type and labelField), a
\* feature list of n features, and the guess service.
LabelInputs ==
  [ cfg   : [ type : {"municipality", "zone", "roads", "uploaded", NULL},
              labelField : {NULL, "", "LBL"} ],
    n     : 0..MaxFeatures,
    guess : {"absent", NULL, "name"},
    out   : {NULL},
    done  : {FALSE} ]

\* The state once the DOMContentLoaded handler has returned, for the config
\* list it read: the panel is built and preloadRepoLayers() is suspended at
\* its first fetch.
InitPanel ==
  /\ env \in { [disk |-> d] @@ e : e \in EnvChoices, d \in {FewFiles, FilePool} }
  /\ uploaded = <<>>
  /\ repo = <<>>
  /\ onMap = {}
  /\ applied = <<>>
  /\ rows = PanelRows(config)
  /\ sliderRepo = [id \in { rows[k].id : k \in DOMAIN rows } |-> SliderInitial]
  /\ sliderUp = <<>>
  /\ removed = {}
  /\ pre = [p \in Procs |-> IF p = 1 THEN [pc |-> "fetch", i |-> 1] ELSE [pc |-> "idle", i |-> 0]]
  /\ readyCount = 0
  /\ upBatch = <<>>
  /\ upIdx = 0
  /\ upLog = <<>>
  /\ nextUid = 0

InitPage == config \in ConfigLists /\ InitPanel

Init ==
  /\ InitPage
  /\ lf = LfIdle /\ csv = CsvIdle /\ grp = GrpIdle
  /\ env.disk = FewFiles
  /\ net \in [1..NumCfg -> {"ok", "fail"}]

PreloadSteps ==
  \/ \E p \in Procs : FetchResolve(p)
  \/ \E p \in Procs : JsonResolve(p)
  \/ \E p \in Procs : PreloadForce(p)

RepoPanelEvents ==
  \/ \E k \in DOMAIN rows, isOn \in BOOLEAN : RepoToggle(rows[k], isOn)
  \/ \E k \in DOMAIN rows, val \in SliderValues : RepoSlider(rows[k], val)

UploadSteps ==
  \/ \E files \in BatchesOf(env.disk) : UploadClick(files)
  \/ UploadResume

UploadedPanelEvents ==
  \/ \E id \in 1..nextUid : UpRemove(id)
  \/ \E id \in 1..nextUid, isOn \in BOOLEAN : UpToggle(id, isOn)
  \/ \E id \in 1..nextUid, val \in SliderValues : UpSlider(id, val)

\* The page: one call of preloadRepoLayers (made by the DOMContentLoaded
\* handler) and the user's events.
Next == PreloadSteps \/ RepoPanelEvents \/ UploadSteps \/ UploadedPanelEvents

Spec == Init /\ [][Next]_vars

\* preloadRepoLayers called a second time, at any moment.
NextTwice == PreloadStart(2) \/ PreloadSteps \/ RepoPanelEvents

SpecTwice == Init /\ [][NextTwice]_vars

\* One fetch may never settle; every other promise settles and its
\* continuation is run.
InitStall ==
  /\ InitPage
  /\ env.disk = FewFiles
  /\ lf = LfIdle /\ csv = CsvIdle /\ grp = GrpIdle
  /\ net \in [1..NumCfg -> {"ok", "fail", "stall"}]

NextStall == PreloadSteps \/ RepoPanelEvents

SpecStall == InitStall /\ [][NextStall]_vars /\ WF_vars(PreloadSteps)

\* Ingestion with every kind of file at hand.
InitIngest ==
  /\ InitPage
  /\ lf = LfIdle /\ csv = CsvIdle /\ grp = GrpIdle
  /\ env.disk = FilePool
  /\ net \in [1..NumCfg -> {"ok", "fail"}]

NextIngest ==
  \/ PreloadSteps
  \/ UploadSteps
  \/ \E id \in 1..nextUid : UpRemove(id)

SpecIngest == InitIngest /\ [][NextIngest]_vars

\* The forcing goes by id and the panel filter by type: a list that gives
\* the reserved roads id a type other than roads has a panel row for it, so
\* its toggle and slider can be used before the forcing.
RoadsAsOther ==
  [id |-> RoadsId, name |-> "Major Roads", type |-> "other", labelField |-> NULL]

RowedRoadsLists ==
  { c \in [1..NumCfg -> ConfigPool \cup {RoadsAsOther}] :
      /\ \A i, j \in 1..NumCfg : c[i].id = c[j].id => i = j
      /\ \E i \in 1..NumCfg : c[i] = RoadsAsOther }

InitForce ==
  /\ config \in ConfigLists \cup RowedRoadsLists
  /\ InitPanel
  /\ env.disk = FewFiles
  /\ lf = LfIdle /\ csv = CsvIdle /\ grp = GrpIdle
  /\ net \in [1..NumCfg -> {"ok", "fail"}]

NextForce == PreloadSteps \/ RepoPanelEvents

SpecForce == InitForce /\ [][NextForce]_vars

\* computeLabelField applied to inputs of every shape.
ApplyLabel ==
  /\ ~lf.done
  /\ lf' = [lf EXCEPT !.out = computeLabelField(lf.cfg, ArrayOf(<<"probe", 0>>, lf.n), lf.guess),
                      !.done = TRUE]
  /\ UNCHANGED <<regVars, rowVars, preVars, upVars, envVars, csv, grp>>

InitLabel ==
  /\ InitPage
  /\ env.disk = FewFiles
  /\ env.guess = "name"
  /\ config = [i \in 1..NumCfg |-> IF i = 1 THEN CHOOSE c \in ConfigPool : c.type = "roads"
                                   ELSE IF i = 2 THEN CHOOSE c \in ConfigPool : c.type = "municipality"
                                   ELSE CHOOSE c \in ConfigPool : c.type = NULL]
  /\ net = [i \in 1..NumCfg |-> "ok"]
  /\ lf \in LabelInputs /\ csv = CsvIdle /\ grp = GrpIdle

NextLabel == ApplyLabel

SpecLabel == InitLabel /\ [][NextLabel]_vars

\* The preloader has nothing to load and no file is at hand: the page is
\* at rest while a pure function is applied.
InitAtRest ==
  /\ InitPage
  /\ env.disk = FewFiles
  /\ env.guess = "name"
  /\ config = [i \in 1..NumCfg |-> IF i = 1 THEN CHOOSE c \in ConfigPool : c.type = "roads"
                                   ELSE IF i = 2 THEN CHOOSE c \in ConfigPool : c.type = "municipality"
                                   ELSE CHOOSE c \in ConfigPool : c.type = NULL]
  /\ net = [i \in 1..NumCfg |-> "ok"]

\* The row loop of handleCsvUpload applied to row lists of every shape.
ApplyCsv ==
  /\ ~csv.done
  /\ csv' = [csv EXCEPT !.out = csvFeatures(csv.rows, CsvFileName, csv.proj),
                        !.done = TRUE]
  /\ UNCHANGED <<regVars, rowVars, preVars, upVars, envVars, lf, grp>>

InitCsv == InitAtRest /\ lf = LfIdle /\ grp = GrpIdle /\ csv \in CsvInputs

NextCsv == ApplyCsv

SpecCsv == InitCsv /\ [][NextCsv]_vars

\* groupRepoLayers applied to config lists of every shape.
ApplyGroup ==
  /\ ~grp.done
  /\ grp' = [grp EXCEPT !.out = groupRepoLayers(grp.cfgs), !.done = TRUE]
  /\ UNCHANGED <<regVars, rowVars, preVars, upVars, envVars, lf, csv>>

InitGroup == InitAtRest /\ lf = LfIdle /\ csv = CsvIdle /\ grp \in GrpInputs

NextGroup == ApplyGroup

SpecGroup == InitGroup /\ [][NextGroup]_vars

\* ------------------------------------------------------------------ claims
IsActiveArray(part, id) ==
  Has(part, id) /\ Get(part, id).active /\ Get(part, id).features.isArray

\* Uploaded ids are given out in commit order, and one call of the
\* preloader commits in config order: the features of the active entries,
\* uploaded by ascending id and then repo by config index.
ExpectedActiveFeatures ==
  Concat([id \in 1..nextUid |->
            IF IsActiveArray(uploaded, id) THEN Get(uploaded, id).features.items ELSE <<>>])
  \o
  Concat([i \in 1..Len(config) |->
            IF IsActiveArray(repo, config[i].id)
            THEN Get(repo, config[i].id).features.items ELSE <<>>])

\* C1: getAllActiveFeatures() is the concatenation of the feature lists of
\* the active entries, uploaded first and then repo, each partition in
\* insertion order; inactive entries and entries whose features are no
\* list contribute nothing.
C1_ActiveFeaturesInOrder == getAllActiveFeatures = ExpectedActiveFeatures

\* C1, witness: entries of every kind and flag in both partitions.
C1_Witness ==
  /\ Len(uploaded) = 2 /\ Len(repo) = 2
  /\ uploaded[1].active /\ ~uploaded[1].features.isArray
  /\ uploaded[2].active /\ uploaded[2].features.isArray
  /\ ~repo[1].active /\ repo[2].active
  /\ Len(getAllActiveFeatures) >= 2

\* C2: once an uploaded entry is removed, its features are never again in
\* getAllActiveFeatures() and no entry exists under its id.
C2_RemovedStaysOut ==
  \A r \in removed :
    /\ ~Has(uploaded, r.id)
    /\ \A f \in Range(r.features.items) : f \notin Range(getAllActiveFeatures)

\* C2, witness: an entry removed while active, with later uploads and the forced roads entry active.
C2_Witness ==
  \E r \in removed :
    /\ r.active /\ r.features.isArray
    /\ r.id < nextUid
    /\ Has(uploaded, nextUid) /\ Get(uploaded, nextUid).active
    /\ Has(repo, RoadsId) /\ Get(repo, RoadsId).active

\* C3: after preloading completes every repo entry of type roads is active
\* with its handle on the map, and no config of type roads has a panel row.
C3_RoadsForcedAndHidden ==
  /\ \A k \in DOMAIN rows : rows[k].type # "roads"
  /\ pre[1].pc = "done" =>
       \A k \in DOMAIN repo :
         repo[k].meta.type = "roads" => repo[k].active /\ repo[k].layer \in onMap

\* C3, witness: preloading done with roads fetched last and a panel row used.
C3_Witness ==
  /\ pre[1].pc = "done"
  /\ Len(config) >= 2 /\ config[2].type = "roads"
  /\ Has(repo, RoadsId) /\ Get(repo, RoadsId).active
  /\ \E k \in DOMAIN repo : repo[k].meta.type # "roads" /\ ~repo[k].active
                            /\ repo[k].opacity # DefaultOpacity

\* C4: after two invocations of the preloader, in any interleaving, the repo
\* partition holds one entry for each config that loads and nothing else.
C4_OneEntryPerId ==
  (\A p \in Procs : pre[p].pc = "done") =>
    /\ Keys(repo) = { config[i].id : i \in { j \in 1..Len(config) : net[j] = "ok" } }
    /\ Len(repo) = Cardinality(Keys(repo))

\* C4, witness: both invocations done after the second replaced an entry whose first handle is on the map.
C4_Witness ==
  /\ \A p \in Procs : pre[p].pc = "done"
  /\ \E k \in DOMAIN repo : repo[k].layer[2] = 2 /\ <<repo[k].id, 1>> \in onMap
  /\ Len(repo) = NumCfg

AllAttempted ==
  /\ pre[1].i = Len(config) + 1
  /\ \A i \in 1..Len(config) : net[i] = "ok" <=> Has(repo, config[i].id)

\* C5: the "repo layers ready" event is dispatched once, and not before every
\* config has been attempted.
C5_ReadyOnceAfterAll ==
  /\ readyCount <= 1
  /\ readyCount = 1 => AllAttempted
  /\ pre[1].pc \in {"force", "done"} => readyCount = 1

\* C5, witness: the event dispatched once although one config failed.
C5_Witness ==
  /\ readyCount = 1
  /\ pre[1].pc = "force"
  /\ \E i \in 1..Len(config) : net[i] = "fail"
  /\ \E i \in 1..Len(config) : net[i] = "ok"

\* C6: a failing config does not stop the preloader: when it is done every
\* config that loads has its entry, every failing one has none, and the
\* ready event was dispatched.
C6_FailureSkipsOneConfig ==
  pre[1].pc = "done" =>
    /\ \A i \in 1..Len(config) :
         /\ net[i] = "ok" => Has(repo, config[i].id)
         /\ net[i] = "fail" => ~Has(repo, config[i].id)
    /\ readyCount = 1

\* C6, witness: the preloader done after its first config failed and its second loaded.
C6_Witness ==
  /\ pre[1].pc = "done"
  /\ Len(config) >= 2
  /\ net[1] = "fail" /\ net[2] = "ok"
  /\ Has(repo, config[2].id) /\ ~Has(repo, config[1].id)
  /\ readyCount = 1

Stalled == { s \in 1..Len(config) : net[s] = "stall" }

\* C7, as claimed: when one fetch never settles, every other config whose
\* fetch succeeds is still committed in the end.
C7_StallAffectsOnlyItsConfig ==
  \A i \in 1..NumCfg :
    (Cardinality(Stalled) = 1 /\ net[i] = "ok") => <>Has(repo, config[i].id)

\* C7, amended: a fetch that never settles holds back its own config and
\* every config listed after it (none of them is ever committed or put on
\* the map, and the ready event is never dispatched); the configs listed
\* before it that load are committed in the end.
C7_StallBlocksLaterConfigs ==
  /\ [](\A s \in Stalled : \A j \in s..Len(config) :
          /\ ~Has(repo, config[j].id)
          /\ \A p \in Procs : <<config[j].id, p>> \notin onMap
          /\ readyCount = 0)
  /\ \A i \in 1..NumCfg :
       (net[i] = "ok" /\ \A s \in Stalled : i < s) => <>Has(repo, config[i].id)

\* C7, witness: the preloader parked on the stalled second fetch, the first config committed.
C7_Witness ==
  /\ Len(config) >= 2
  /\ net[1] = "ok" /\ net[2] = "stall"
  /\ pre[1] = [pc |-> "fetch", i |-> 2]
  /\ Has(repo, config[1].id)
  /\ readyCount = 0

\* What the specification counts as a successful ingestion of a file: a
\* supported extension, well-formed content, and its parser loaded.
SupportedExt(ext) == ToLowerCase(ext) \in {"csv", "geojson", "json", "zip"}

Ingestable(file) ==
  /\ SupportedExt(file.ext)
  /\ file.body # "bad"
  /\ ToLowerCase(file.ext) = "csv" => env.papa
  /\ ToLowerCase(file.ext) = "zip" => env.shp

GrewBy(part, partNext, e) ==
  /\ Len(partNext) = Len(part) + 1
  /\ SubSeq(partNext, 1, Len(part)) = part
  /\ e = partNext[Len(partNext)]

\* C8: the step that ends a file's or a config's ingestion adds one entry
\* to its partition when the ingestion succeeded, and leaves both
\* partitions as they were when it failed.
C8_EntryIffIngested ==
  [][ /\ (upIdx # 0 /\ upLog' # upLog) =>
           IF Ingestable(upBatch[upIdx])
           THEN /\ \E e \in Range(uploaded') :
                     /\ GrewBy(uploaded, uploaded', e)
                     /\ e.name = <<upBatch[upIdx].stem, upBatch[upIdx].ext>>
                /\ repo' = repo
           ELSE uploaded' = uploaded /\ repo' = repo
      /\ \A p \in Procs :
           (pre[p].pc \in {"fetch", "json"} /\ pre'[p].i # pre[p].i) =>
             IF net[pre[p].i] = "ok"
             THEN /\ \E e \in Range(repo') :
                       /\ GrewBy(repo, repo', e)
                       /\ e.id = config[pre[p].i].id
                  /\ uploaded' = uploaded
             ELSE uploaded' = uploaded /\ repo' = repo
    ]_vars

\* C8, witness: a failed and a successful upload, and a failed and a successful config.
C8_Witness ==
  /\ Len(upLog) = 2
  /\ upLog[1].outcome \in {"failed", "noresult"}
  /\ upLog[2].outcome = "committed"
  /\ Len(uploaded) = 1
  /\ pre[1].pc = "done"
  /\ Len(repo) = 1
  /\ \E i \in 1..Len(config) : net[i] = "fail"

\* C9: when a click's files are all processed, every file with an
\* unsupported extension was reported and got no entry, and every
\* ingestable file got its entry, wherever the unsupported files sit.
C9_UnsupportedDoesNotStopBatch ==
  /\ \A k \in DOMAIN uploaded : SupportedExt(uploaded[k].name[2])
  /\ (upIdx = 0 /\ upBatch # <<>>) =>
       /\ Len(upLog) = Len(upBatch)
       /\ \A j \in DOMAIN upBatch :
            /\ ~SupportedExt(upBatch[j].ext) => upLog[j] = Logged("unsupported", 0)
            /\ Ingestable(upBatch[j]) =>
                 /\ upLog[j].outcome = "committed"
                 /\ \/ /\ Has(uploaded, upLog[j].id)
                       /\ Get(uploaded, upLog[j].id).name = <<upBatch[j].stem, upBatch[j].ext>>
                    \/ \E r \in removed : r.id = upLog[j].id

\* C9, witness: a finished click whose first file was unsupported and whose second got its entry.
C9_Witness ==
  /\ upIdx = 0
  /\ Len(upBatch) = 2
  /\ upBatch[1].ext = "txt"
  /\ upLog[1].outcome = "unsupported"
  /\ upLog[2].outcome = "committed"
  /\ Has(uploaded, upLog[2].id)

\* C10, as claimed: for every config and feature list, a config's own
\* labelField wins; else a municipality or zone type gives its default
\* name; else the result is the guess service's answer or null.
C10_StrictPrecedence ==
  lf.done =>
    /\ Truthy(lf.cfg.labelField) => lf.out = lf.cfg.labelField
    /\ (~Truthy(lf.cfg.labelField) /\ lf.cfg.type = "municipality") => lf.out = "NAME_1"
    /\ (~Truthy(lf.cfg.labelField) /\ lf.cfg.type = "zone") => lf.out = "zone"
    /\ (~Truthy(lf.cfg.labelField) /\ lf.cfg.type \notin {"municipality", "zone"}) =>
         lf.out \in {NULL} \cup ({lf.guess} \ {"absent"})

\* C10, amended: an empty feature list gives null whatever the config; for
\* a non-empty one the precedence is: non-empty labelField, else the
\* type's default, else the guess service's answer, else null.
C10_PrecedenceOnNonEmpty ==
  lf.done =>
    /\ lf.n = 0 => lf.out = NULL
    /\ lf.n > 0 =>
         /\ Truthy(lf.cfg.labelField) => lf.out = lf.cfg.labelField
         /\ (~Truthy(lf.cfg.labelField) /\ lf.cfg.type = "municipality") => lf.out = "NAME_1"
         /\ (~Truthy(lf.cfg.labelField) /\ lf.cfg.type = "zone") => lf.out = "zone"
         /\ (~Truthy(lf.cfg.labelField) /\ lf.cfg.type \notin {"municipality", "zone"}) =>
              lf.out = IF lf.guess = "absent" THEN NULL ELSE lf.guess

\* C10, witness: a non-empty list where the config's labelField beat the type default and the guess.
C10_Witness ==
  /\ lf.done
  /\ lf.n > 0
  /\ lf.cfg.labelField = "LBL" /\ lf.cfg.type = "zone" /\ lf.guess = "name"
  /\ lf.out = "LBL"

\* A row the CSV handler is to keep: Easting and Northing both parse to
\* finite numbers and the normalization of the pair is not null.
RowKept(r) ==
  LET e == parseFloat(Cell(r, "Easting"))
      n == parseFloat(Cell(r, "Northing"))
  IN  /\ NumberIsFinite(e)
      /\ NumberIsFinite(n)
      /\ ~utmToLatLon32620(e, n, csv.proj).isNull

KeptRows == SelectSeq(csv.rows, RowKept)

TagNames == {"__sourceFile", "__assumedCRS"}

Tagged(f) ==
  /\ f.properties["__sourceFile"] = CsvFileName
  /\ f.properties["__assumedCRS"] = AssumedCRS

\* C11, as claimed: the features are, in row order, one for each kept row
\* and none for any other row, and each feature has every property of its
\* row with the row's value, plus the source-file and assumed-CRS tags.
C11_FeaturePerKeptRowAllProperties ==
  csv.done =>
    /\ Len(csv.out) = Len(KeptRows)
    /\ \A k \in DOMAIN csv.out :
         /\ \A c \in DOMAIN KeptRows[k] : csv.out[k].properties[c] = KeptRows[k][c]
         /\ Tagged(csv.out[k])

\* C11, amended: the features are, in row order, one for each kept row and
\* none for any other row; each feature carries the two tags and every
\* property of its row whose name is not a tag's name (a column named like
\* a tag is overwritten by the tag).
C11_FeaturePerKeptRowTagsWin ==
  csv.done =>
    /\ Len(csv.out) = Len(KeptRows)
    /\ \A k \in DOMAIN csv.out :
         /\ DOMAIN csv.out[k].properties = (DOMAIN KeptRows[k]) \cup TagNames
         /\ \A c \in (DOMAIN KeptRows[k]) \ TagNames :
              csv.out[k].properties[c] = KeptRows[k][c]
         /\ Tagged(csv.out[k])
         /\ csv.out[k].type = "Feature" /\ csv.out[k].geometry.type = "Point"

\* C11, witness: two rows with a column named like a tag; the first is dropped
\* for its Northing, the second kept with a number read from a prefix.
C11_Witness ==
  /\ csv.done
  /\ Len(csv.rows) = 2
  /\ Cell(csv.rows[1], "Northing") = "Infinity"
  /\ Cell(csv.rows[2], "Easting") = "12abc"
  /\ Len(csv.out) = 1
  /\ csv.out[1].properties["Easting"] = "12abc"
  /\ "__sourceFile" \in DOMAIN csv.rows[2]

RegistryAndMapUnchanged ==
  /\ uploaded' = uploaded
  /\ repo' = repo
  /\ onMap' = onMap
  /\ applied' = applied

\* C12: a toggle or slider event for an id that has no entry in its
\* partition (a repo config not committed yet, an uploaded entry already
\* removed) changes neither partition nor the handles on the map, and
\* creates no entry.
C12_AbsentIdNoEffect ==
  [][ /\ \A k \in DOMAIN rows :
           ( /\ ~Has(repo, rows[k].id)
             /\ \/ \E isOn \in BOOLEAN : RepoToggle(rows[k], isOn)
                \/ \E val \in SliderValues : RepoSlider(rows[k], val) )
           => RegistryAndMapUnchanged
      /\ \A id \in 1..nextUid :
           ( /\ ~Has(uploaded, id)
             /\ \/ \E isOn \in BOOLEAN : UpToggle(id, isOn)
                \/ \E val \in SliderValues : UpSlider(id, val) )
           => RegistryAndMapUnchanged
    ]_vars

\* C12, witness: the slider of a config that failed to load was moved, and an
\* uploaded entry was removed while another entry stayed on the map.
C12_Witness ==
  /\ pre[1].pc = "done"
  /\ \E k \in DOMAIN rows : ~Has(repo, rows[k].id) /\ sliderRepo[rows[k].id] = SliderMax
  /\ removed # {}
  /\ onMap # {}

\* C13: an id present in the repo partition is present in every later
\* state, whatever toggle, slider, upload and remove events follow; a step
\* that deletes an entry deletes one uploaded entry and leaves the repo
\* partition as it was.
C13_RepoEntriesStay ==
  [][ /\ Keys(repo) \subseteq Keys(repo')
      /\ Len(repo') >= Len(repo)
      /\ ~(Keys(uploaded) \subseteq Keys(uploaded')) =>
           /\ repo' = repo
           /\ Cardinality(Keys(uploaded) \ Keys(uploaded')) = 1
           /\ Keys(uploaded') \subseteq Keys(uploaded)
    ]_vars

\* C13, witness: every config is loaded, one was switched on and off again
\* with its slider moved, an upload was removed and another one is kept.
C13_Witness ==
  /\ Len(repo) = NumCfg
  /\ pre[1].pc = "done"
  /\ \E k \in DOMAIN repo :
       repo[k].id # RoadsId /\ ~repo[k].active /\ repo[k].opacity = SliderMax
  /\ removed # {}
  /\ uploaded # <<>>

RoadsForcedNext ==
  Has(repo, RoadsId) =>
    LET obj == Get(repo', RoadsId)
    IN  /\ obj.active
        /\ obj.layer \in onMap'
        /\ HasSetOpacity(obj.layer) => applied'[obj.layer] = RoadsBaseOpacity

\* C14: within a run of the preloader every config is attempted, then the
\* ready event is dispatched, then the roads entry is forced: the forcing
\* step comes after the event, leaves the entry active, on the map and at
\* its base opacity whatever the panel did to it before, and before that
\* step nothing but its own panel row activates the entry.
C14_NotifyThenForce ==
  /\ [](readyCount >= 1 => AllAttempted)
  /\ [](pre[1].pc \in {"force", "done"} => readyCount = 1)
  /\ [][ (pre[1].pc = "force" /\ pre'[1].pc = "done") =>
           /\ readyCount = 1 /\ readyCount' = 1
           /\ AllAttempted
           /\ RoadsForcedNext ]_vars
  /\ [][ ( /\ Has(repo', RoadsId) /\ Get(repo', RoadsId).active
           /\ ~(Has(repo, RoadsId) /\ Get(repo, RoadsId).active)
           /\ pre[1].pc # "force" )
         => /\ \E k \in DOMAIN rows : rows[k].id = RoadsId
            /\ pre' = pre ]_vars

\* C14, witness: the roads entry has a row; its slider was moved before the
\* forcing, and after the forcing the handle shows the base opacity.
C14_Witness ==
  /\ pre[1].pc = "done"
  /\ readyCount = 1
  /\ Has(repo, RoadsId)
  /\ LET obj == Get(repo, RoadsId)
     IN  /\ obj.active
         /\ obj.opacity = SliderMax
         /\ obj.layer \in DOMAIN applied
         /\ applied[obj.layer] = RoadsBaseOpacity
  /\ \E i \in 1..Len(config) : net[i] = "fail"

\* C15, as claimed: with two invocations of the preloader interleaved in any
\* way, an entry that is committed is never replaced by a second commit of
\* its id: its handle and the active flag and opacity the user gave it stay
\* until the user changes them.
C15_CommittedOnce ==
  [][ \A k \in DOMAIN repo :
        LET id == repo[k].id
        IN  /\ Has(repo', id)
            /\ Get(repo', id).layer = repo[k].layer
            /\ (\E p \in Procs : pre'[p] # pre[p] /\ pre[p].pc # "force") =>
                 Get(repo', id) = repo[k]
    ]_vars

BecomesActive(part, partNext, id) ==
  /\ Has(partNext, id) /\ Get(partNext, id).active
  /\ ~(Has(part, id) /\ Get(part, id).active)

\* C16: an entry is inactive when it is committed, a repo entry with
\* opacity 0.6 if its config's type is roads and 0.7 if not, an uploaded
\* entry with opacity 0.7; and an entry becomes active only by a toggle-on
\* event of its row, or, for the roads entry, by the preloader's forcing.
C16_CommittedInactive ==
  [][ /\ \A k \in DOMAIN repo' :
           ~Has(repo, repo'[k].id) =>
             /\ ~repo'[k].active
             /\ repo'[k].layer \notin onMap'
             /\ repo'[k].opacity = IF repo'[k].meta.type = "roads" THEN 60 ELSE 70
      /\ \A k \in DOMAIN uploaded' :
           ~Has(uploaded, uploaded'[k].id) =>
             /\ ~uploaded'[k].active
             /\ uploaded'[k].layer \notin onMap'
             /\ uploaded'[k].opacity = 70
      /\ \A i \in 1..Len(config) :
           BecomesActive(repo, repo', config[i].id) =>
             \/ \E k \in DOMAIN rows : rows[k] = config[i] /\ RepoToggle(rows[k], TRUE)
             \/ config[i].id = RoadsId /\ pre[1].pc = "force" /\ pre'[1].pc = "done"
      /\ \A id \in 1..MaxUploads :
           BecomesActive(uploaded, uploaded', id) => UpToggle(id, TRUE)
    ]_vars

\* C16, witness: the forced roads entry at 0.6, an untouched repo entry and an
\* untouched upload at 0.7, and an upload switched on from its row.
C16_Witness ==
  /\ pre[1].pc = "done"
  /\ Has(repo, RoadsId) /\ Get(repo, RoadsId).active /\ Get(repo, RoadsId).opacity = RoadsOpacity
  /\ \E k \in DOMAIN repo : ~repo[k].active /\ repo[k].opacity = DefaultOpacity
  /\ \E k \in DOMAIN uploaded : ~uploaded[k].active /\ uploaded[k].opacity = DefaultOpacity
  /\ \E k \in DOMAIN uploaded : uploaded[k].active /\ uploaded[k].layer \in onMap

\* The bucket the claim assigns to a config: its type, "other" without one.
BucketOf(cfg) == IF cfg.type \in {NULL, ""} THEN "other" ELSE cfg.type

\* C17: groupRepoLayers partitions the list: the buckets are the types that
\* occur, each bucket holds the configs of its type in their order of
\* appearance in the list, and so every config is in one bucket, once.
C17_GroupsPartitionInOrder ==
  grp.done =>
    /\ DOMAIN grp.out = { BucketOf(grp.cfgs[k]) : k \in DOMAIN grp.cfgs }
    /\ \A t \in DOMAIN grp.out :
         grp.out[t] = SelectSeq(grp.cfgs, LAMBDA c : BucketOf(c) = t)
    /\ \A c \in Range(grp.cfgs) :
         Cardinality({ t \in DOMAIN grp.out : c \in Range(grp.out[t]) }) = 1

\* C17, witness: two configs of one type with another type between them,
\* and a bucket "other" filled by a config without type.
C17_Witness ==
  /\ grp.done
  /\ Len(grp.cfgs) = 3
  /\ grp.cfgs[1].id = "m2" /\ grp.cfgs[2].type = NULL /\ grp.cfgs[3].id = "m1"
  /\ Len(grp.out["municipality"]) = 2
  /\ grp.out["municipality"][1].id = "m2"
  /\ Len(grp.out["other"]) = 1

\* What of an entry is fixed at commit time.
Committed(e) ==
  [id |-> e.id, name |-> e.name, layer |-> e.layer, features |-> e.features, meta |-> e.meta]

FixedPartKept(part, partNext) ==
  \A k \in DOMAIN part :
    Has(partNext, part[k].id) => Committed(Get(partNext, part[k].id)) = Committed(part[k])

\* C18: once an entry is committed, its id, name, feature list and
\* meta.labelField (and its handle and the rest of meta) stay as they are
\* under every toggle, slider, remove, upload and preload event: only its
\* active flag and opacity change.
C18_OnlyActiveAndOpacityChange ==
  [][ FixedPartKept(repo, repo') /\ FixedPartKept(uploaded, uploaded') ]_vars

\* C18, witness: a repo entry and an upload, both with a label field, both
\* switched on with the slider moved, after another upload was removed and
\* the preloader ended.
C18_Witness ==
  /\ pre[1].pc = "done"
  /\ removed # {}
  /\ \E k \in DOMAIN repo :
       /\ repo[k].id # RoadsId
       /\ repo[k].active /\ repo[k].opacity = SliderMax
       /\ repo[k].meta.labelField # NULL
  /\ \E k \in DOMAIN uploaded :
       /\ uploaded[k].active /\ uploaded[k].opacity = SliderMax
       /\ uploaded[k].meta.labelField # NULL

\* C19: in every state an entry of either partition is active exactly when
\* its handle is on the map, and the handle of a removed uploaded entry is
\* not on the map.
C19_ActiveIffOnMap ==
  /\ \A k \in DOMAIN repo : repo[k].active <=> repo[k].layer \in onMap
  /\ \A k \in DOMAIN uploaded : uploaded[k].active <=> uploaded[k].layer \in onMap
  /\ \A r \in removed : r.layer \notin onMap

\* C19, witness: an upload removed while it was on the map, another one
\* switched on, the roads entry forced and another repo entry switched off.
C19_Witness ==
  /\ \E r \in removed : r.active
  /\ \E k \in DOMAIN uploaded : uploaded[k].active
  /\ pre[1].pc = "done"
  /\ Has(repo, RoadsId) /\ Get(repo, RoadsId).active
  /\ \E k \in DOMAIN repo : ~repo[k].active /\ repo[k].opacity = SliderMax
  /\ Cardinality(onMap) = 2

AppliedIsStored(e) ==
  (e.active /\ HasSetOpacity(e.layer)) =>
    /\ e.layer \in DOMAIN applied
    /\ applied[e.layer] = e.opacity

\* C20, as claimed: whenever an entry is active and its handle has
\* setOpacity, the opacity last applied to the handle is the entry's stored
\* opacity, after any toggle, slider and roads-forcing events.
C20_AppliedEqualsStored ==
  /\ \A k \in DOMAIN repo : AppliedIsStored(repo[k])
  /\ \A k \in DOMAIN uploaded : AppliedIsStored(uploaded[k])

====
